---- MODULE Spec2Model ----
(***************************************************************************)
(* LeadFlowX Leads API (src/main.py): the ingestion upsert (post_lead),    *)
(* the filtered / paginated listing (list_leads), the counter endpoints    *)
(* and the pooled access to the raw_leads table.                           *)
(*                                                                         *)
(* Text values are sequences of one-character strings; an Optional[x] is   *)
(* <<>> (None) or <<x>>.  A timestamp is a clock tick.  A date parameter   *)
(* is a text <<t>> that the store parses to tick t when t >= 0 and rejects *)
(* otherwise.                                                              *)
(***************************************************************************)
EXTENDS Integers, Sequences, FiniteSets, Bags, TLC

VARIABLES
    pool,        \* main.py:15-20  TRUE: a SimpleConnectionPool, FALSE: None
    started,     \* main.py:48-50  the startup event has run
    used,        \* connections checked out of the pool
    tableExists, \* raw_leads has been created
    rows,        \* committed rows of raw_leads
    seq,         \* last value handed out by the SERIAL sequence of raw_leads.id
    clock,       \* wall clock, whole seconds (utcnow() and the store's now())
    reqs,        \* bag of the requests in flight (handler frames)
    last         \* the response returned most recently since the last arrival

vars == <<pool, started, used, tableExists, rows, seq, clock, reqs, last>>

----------------------------------------------------------------------------
(* Bounds of the model *)

MaxInflight == 2     \* requests in flight at once, specification Spec
MaxInserts == 2      \* post_lead requests accepted in one behaviour of Spec
PoolInflight == 6    \* requests in flight at once, specification SpecPool
MaxSeq == 3          \* post_lead requests accepted in one behaviour of SpecSeq, SpecPool
MaxClock == 1        \* clock ticks in one behaviour
MaxPage == 3         \* largest page number requested

(* Program constants *)

maxconn == 5         \* main.py:20
PageSizeMax == 200   \* main.py:133
ServiceUnavailable == 503   \* main.py:230

----------------------------------------------------------------------------
(* Python values *)

None == <<>>
Some(x) == <<x>>

\* Truth value of an Optional[str] / Optional[List[str]]: None and the empty
\* value are both falsy (main.py:145, 151, 156, 159, 232).
Truthy(opt) == opt # None /\ opt[1] # <<>>

Range(s) == {s[i] : i \in 1..Len(s)}

Min(a, b) == IF a <= b THEN a ELSE b
Max(a, b) == IF a >= b THEN a ELSE b

\* str(int) for a non-negative integer (the f-string of main.py:232).
RECURSIVE Digits(_)
Digits(n) ==
    LET d == <<"0","1","2","3","4","5","6","7","8","9">>[(n % 10) + 1]
    IN IF n < 10 THEN <<d>> ELSE Digits(n \div 10) \o <<d>>

----------------------------------------------------------------------------
(* The store's text matching: ILIKE of main.py:146 *)

Lower(c) ==
    CASE c = "A" -> "a"
      [] c = "C" -> "c"
      [] c = "X" -> "x"
      [] OTHER -> c

\* text LIKE pattern, case-insensitively: % matches any run, _ any character.
RECURSIVE ILike(_, _)
ILike(text, pat) ==
    IF pat = <<>> THEN text = <<>>
    ELSE IF Head(pat) = "%"
         THEN ILike(text, Tail(pat)) \/ (text # <<>> /\ ILike(Tail(text), pat))
    ELSE IF text = <<>> THEN FALSE
    ELSE IF Head(pat) = "_" THEN ILike(Tail(text), Tail(pat))
    ELSE Lower(Head(text)) = Lower(Head(pat)) /\ ILike(Tail(text), Tail(pat))

----------------------------------------------------------------------------
(* The raw_leads table and the statements the handlers send *)

\* A row of raw_leads (main.py:29-38).
Row(id, email, name, company, website, phone, correlation_id, created_at) ==
    [id |-> id, email |-> email, name |-> name, company |-> company,
     website |-> website, phone |-> phone, correlation_id |-> correlation_id,
     created_at |-> created_at]

NoRow == Row(0, <<>>, <<>>, <<>>, <<>>, <<>>, <<>>, 0)

\* The WHERE clause list_leads builds (main.py:142-163).  The source
\* parameter adds no predicate.
WhereClause(args) ==
    [like     |-> IF Truthy(args.search)
                  THEN Some(<<"%">> \o args.search[1] \o <<"%">>) ELSE None,
     dateFrom |-> IF Truthy(args.dateFrom) THEN args.dateFrom ELSE None,
     dateTo   |-> IF Truthy(args.dateTo) THEN args.dateTo ELSE None]

\* The counter endpoints send no WHERE clause (main.py:203, 211, 221).
NoWhere == [like |-> None, dateFrom |-> None, dateTo |-> None]

\* The store cannot cast the text to a timestamp: the statement raises.
BadTimestamp(d) == d # None /\ d[1][1] < 0

StatementFails(where) == BadTimestamp(where.dateFrom) \/ BadTimestamp(where.dateTo)

\* The predicate of the WHERE clause on one row (main.py:146, 157, 160).
RowMatches(r, where) ==
    /\ \/ where.like = None
       \/ ILike(r.email, where.like[1])
       \/ ILike(r.name, where.like[1])
       \/ ILike(r.company, where.like[1])
       \/ ILike(r.website, where.like[1])
    /\ where.dateFrom = None \/ r.created_at >= where.dateFrom[1][1]
    /\ where.dateTo = None \/ r.created_at <= where.dateTo[1][1]

Matching(table, where) == {r \in table : RowMatches(r, where)}

\* SELECT COUNT(*) FROM raw_leads <where> (main.py:165).
SelectCount(table, where) == Cardinality(Matching(table, where))

\* Mutant: ORDER BY id (ascending).
RECURSIVE OrderByIdAsc(_)
OrderByIdAsc(S) ==
    IF S = {} THEN <<>>
    ELSE LET low == CHOOSE r \in S : \A q \in S : q.id >= r.id
         IN <<low>> \o OrderByIdAsc(S \ {low})

\* ORDER BY id DESC (main.py:171).
RECURSIVE OrderByIdDesc(_)
OrderByIdDesc(S) ==
    IF S = {} THEN <<>>
    ELSE LET top == CHOOSE r \in S : \A q \in S : q.id <= r.id
         IN <<top>> \o OrderByIdDesc(S \ {top})

\* Mutant: the limit counts from the start of the list, not from the offset.
LimitFromStart(s, limit, offset) ==
    IF offset >= Len(s) THEN <<>>
    ELSE SubSeq(s, offset + 1, Min(Len(s), limit))

\* LIMIT limit OFFSET offset of a result list (main.py:171-172).
LimitOffset(s, limit, offset) ==
    IF offset >= Len(s) THEN <<>>
    ELSE SubSeq(s, offset + 1, Min(Len(s), offset + limit))

\* SELECT ... FROM raw_leads <where> ORDER BY id DESC LIMIT .. OFFSET ..
SelectPage(table, where, limit, offset) ==
    LimitOffset(OrderByIdDesc(Matching(table, where)), limit, offset)

\* Mutant: the DO UPDATE also sets created_at = now().
InsertOnConflictTouch(table, p, correlation_id, newid, now) ==
    LET hit == {r \in table : r.email = p.email}
        old == CHOOSE r \in hit : TRUE
    IN [error |-> "",
        row |-> IF hit = {}
                THEN Row(newid, p.email, p.name, p.company, p.website, p.phone,
                         correlation_id, now)
                ELSE Row(old.id, p.email, p.name, p.company, p.website, p.phone,
                         correlation_id, now)]

\* Mutant: a plain INSERT, without the ON CONFLICT clause: the UNIQUE
\* constraint on email (main.py:31) rejects a second row.
InsertPlain(table, p, correlation_id, newid, now) ==
    [error |-> IF \E r \in table : r.email = p.email THEN "UniqueViolation" ELSE "",
     row |-> Row(newid, p.email, p.name, p.company, p.website, p.phone,
                 correlation_id, now)]

\* INSERT ... ON CONFLICT (email) DO UPDATE SET ... RETURNING id, created_at
\* (main.py:236-257) against the committed table: the row the statement
\* writes, and the error it raises ("" for none).  newid is the value drawn
\* from the id sequence, now the store's now().
InsertOnConflict(table, p, correlation_id, newid, now) ==
    LET hit == {r \in table : r.email = p.email}
    IN IF hit = {}
       THEN [error |-> "",
             row |-> Row(newid, p.email, p.name, p.company, p.website, p.phone,
                         correlation_id, now)]
       ELSE LET old == CHOOSE r \in hit : TRUE
            IN [error |-> "",
                row |-> [old EXCEPT !.name = p.name, !.company = p.company,
                                    !.website = p.website, !.phone = p.phone,
                                    !.correlation_id = correlation_id]]

\* The table after the transaction that wrote row commits (main.py:235, the
\* exit of the with block).
Commit(table, row) == {r \in table : r.id # row.id} \cup {row}

\* main.py:232
CorrelationId(p, now) ==
    IF Truthy(p.correlationId) THEN p.correlationId[1]
    ELSE <<"manual-">> \o Digits(now) \o <<"-">> \o p.email

\* math.ceil(total / pageSize) if total else 0 (main.py:167).
TotalPages(total, pageSize) ==
    IF total = 0 THEN 0
    ELSE IF total % pageSize = 0 THEN total \div pageSize
    ELSE (total \div pageSize) + 1

\* Mutant: pages counted from 0.
OffsetFromPage(page, pageSize) == page * pageSize

\* main.py:168
Offset(page, pageSize) == (page - 1) * pageSize

\* A row in the public Lead shape (main.py:176-191).
Lead(r) ==
    [id |-> r.id, email |-> r.email, name |-> r.name, company |-> r.company,
     website |-> r.website, phone |-> r.phone, correlationId |-> r.correlation_id,
     createdAt |-> r.created_at, scrapedAt |-> r.created_at,
     source |-> "google_maps"]

Leads(rs) == [i \in 1..Len(rs) |-> Lead(rs[i])]

\* Mutant: only the first source of the list is looked at.
FirstSourceOnly(source) == Truthy(source) /\ source[1][1] # "google_maps"

\* main.py:151-152
NoMatchingSources(source) == Truthy(source) /\ "google_maps" \notin Range(source[1])

----------------------------------------------------------------------------
(* Requests and responses *)

\* LeadIn (main.py:88-95)
LeadIn(email, name, company, website, phone, correlationId) ==
    [email |-> email, name |-> name, company |-> company, website |-> website,
     phone |-> phone, correlationId |-> correlationId]

NoPayload == LeadIn(<<>>, <<>>, <<>>, <<>>, <<>>, None)

\* The query parameters of list_leads (main.py:131-138)
ListArgs(page, pageSize, search, source, dateFrom, dateTo) ==
    [page |-> page, pageSize |-> pageSize, search |-> search, source |-> source,
     dateFrom |-> dateFrom, dateTo |-> dateTo]

NoArgs == ListArgs(1, 25, None, None, None, None)

\* The frame of a handler in flight: where it stands and its locals.
\* queries counts the statements the request has sent to the store; raised
\* tells that one of them raised an error.
Request(op, pc, payload, args) ==
    [op |-> op, pc |-> pc, payload |-> payload, args |-> args,
     correlation_id |-> <<>>, row |-> NoRow, total |-> 0, queries |-> 0,
     raised |-> FALSE]

\* What a request returns.  status 0: none yet.  visible is the number of rows
\* that matched the WHERE clause when the page statement ran.
NoResponse ==
    [op |-> "", status |-> 0, error |-> "", payload |-> NoPayload, args |-> NoArgs,
     id |-> 0, correlationId |-> <<>>, createdAt |-> 0,
     items |-> <<>>, total |-> 0, totalPages |-> 0, count |-> 0,
     queries |-> 0, raised |-> FALSE, visible |-> 0]

\* Mutant: the handler answers success without a store.
Accepted(p) ==
    [NoResponse EXCEPT !.op = "post_lead", !.status = 200, !.payload = p]

\* raise HTTPException(status_code=503, ...) (main.py:229-230)
Unavailable(p) ==
    [NoResponse EXCEPT !.op = "post_lead", !.status = ServiceUnavailable,
                       !.error = "Database not configured", !.payload = p]

\* The empty page of main.py:140 and main.py:154
EmptyPage(args) ==
    [NoResponse EXCEPT !.op = "list_leads", !.status = 200, !.args = args]

\* main.py:193-196
Page(r, found, visible) ==
    [NoResponse EXCEPT !.op = "list_leads", !.status = 200, !.args = r.args,
                       !.items = Leads(found), !.total = r.total,
                       !.totalPages = TotalPages(r.total, r.args.pageSize),
                       !.queries = r.queries + 1, !.raised = r.raised,
                       !.visible = visible]

\* The counter endpoints' results (main.py:202-204, 210-212, 218-224)
Counted(op, n, queries) ==
    [NoResponse EXCEPT !.op = op, !.status = 200, !.count = n, !.queries = queries]

\* main.py:261
Ingested(r) ==
    [NoResponse EXCEPT !.op = "post_lead", !.status = 200, !.payload = r.payload,
                       !.id = r.row.id, !.correlationId = r.correlation_id,
                       !.createdAt = r.row.created_at, !.queries = r.queries]

\* An exception that leaves the handler: the transport answers 500.
Failure(r, error, queries) ==
    [NoResponse EXCEPT !.op = r.op, !.status = 500, !.error = error,
                       !.payload = r.payload, !.args = r.args, !.queries = queries,
                       !.raised = (error # "PoolError")]

Where(r) == IF r.op = "list_leads" THEN WhereClause(r.args) ELSE NoWhere

InFlight == BagToSet(reqs)

\* Number of requests in flight whose frame satisfies the test.
CountAt(pcs) ==
    BagCardinality([r \in {x \in InFlight : x.pc \in pcs} |-> reqs[r]])

\* Positions at which a frame holds a connection of the pool.
Holding == {"init_execute", "post_execute", "post_commit", "count_execute", "page_execute"}

Step(r, r2) == reqs' = (reqs (-) SetToBag({r})) (+) SetToBag({r2})

Return(r, resp) ==
    /\ reqs' = reqs (-) SetToBag({r})
    /\ last' = resp

Accept(r) ==
    /\ reqs' = reqs (+) SetToBag({r})
    /\ last' = NoResponse

\* pool.getconn() (main.py:40, 102, 115, 233): a free connection, or PoolError
\* once maxconn connections are checked out.
Exhausted == used >= maxconn

\* Mutant: putconn after the statement, outside any finally.
ReleasedOnSuccess(n, raised) == IF raised THEN n ELSE n - 1

\* Connections checked out after the try / finally around a statement
\* (main.py:41-45, 103-109, 116-122, 234-260): putconn runs whether or not the
\* statement raised.
Released(n, raised) == n - 1

----------------------------------------------------------------------------
(* Initial state: the module has been loaded (main.py:13-22) *)

Init ==
    /\ pool \in BOOLEAN
    /\ started = FALSE
    /\ used = 0
    /\ tableExists = FALSE
    /\ rows = {}
    /\ seq = 0
    /\ clock = 0
    /\ reqs = EmptyBag
    /\ last = NoResponse

\* on_startup (main.py:48-50): init_db before any request is served.  A
\* failure here ends the process, so only the successful run leads on.
on_startup ==
    /\ ~started
    /\ started' = TRUE
    /\ tableExists' = pool
    /\ UNCHANGED <<pool, used, rows, seq, clock, reqs, last>>

\* The clock advances.
Tick ==
    /\ clock < MaxClock
    /\ clock' = clock + 1
    /\ UNCHANGED <<pool, started, used, tableExists, rows, seq, reqs, last>>

\* The transport hands a request to a handler while fewer than n are in flight.
Arrives(n) == started /\ BagCardinality(reqs) < n

----------------------------------------------------------------------------
(* post_lead (main.py:227-261) *)

\* INSERT statements that requests in flight have still to execute.
InsertsAhead == CountAt({"init_getconn", "init_execute", "post_getconn", "post_execute"})

\* main.py:229-231, up to the call of init_db.  At most m INSERT statements
\* are sent in one behaviour.
post_lead(p, n, m) ==
    /\ Arrives(n)
    /\ seq + InsertsAhead < m
    /\ IF ~pool
       THEN /\ last' = Unavailable(p)
            /\ UNCHANGED reqs
       ELSE Accept(Request("post_lead", "init_getconn", p, NoArgs))
    /\ UNCHANGED <<pool, started, used, tableExists, rows, seq, clock>>

\* init_db, main.py:40
init_db_getconn ==
    \E r \in InFlight :
        /\ r.pc = "init_getconn"
        /\ IF Exhausted
           THEN /\ Return(r, Failure(r, "PoolError", r.queries))
                /\ UNCHANGED used
           ELSE /\ used' = used + 1
                /\ Step(r, [r EXCEPT !.pc = "init_execute"])
                /\ UNCHANGED last
        /\ UNCHANGED <<pool, started, tableExists, rows, seq, clock>>

\* init_db, main.py:41-45: the DDL, the commit, and putconn in the finally.
init_db_execute ==
    \E r \in InFlight, fault \in BOOLEAN :
        /\ r.pc = "init_execute"
        /\ used' = Released(used, fault)
        /\ IF fault
           THEN /\ Return(r, Failure(r, "StoreError", r.queries + 1))
                /\ UNCHANGED tableExists
           ELSE /\ tableExists' = TRUE
                /\ Step(r, [r EXCEPT !.pc = "post_getconn", !.queries = r.queries + 1])
                /\ UNCHANGED last
        /\ UNCHANGED <<pool, started, rows, seq, clock>>

\* main.py:232-233
post_getconn ==
    \E r \in InFlight :
        /\ r.pc = "post_getconn"
        /\ IF Exhausted
           THEN /\ Return(r, Failure(r, "PoolError", r.queries))
                /\ UNCHANGED used
           ELSE /\ used' = used + 1
                /\ Step(r, [r EXCEPT !.pc = "post_execute",
                                     !.correlation_id = CorrelationId(r.payload, clock)])
                /\ UNCHANGED last
        /\ UNCHANGED <<pool, started, tableExists, rows, seq, clock>>

\* Another transaction has written the row of this email and not yet
\* committed: the statement waits for it.
RowLocked(email) ==
    \E q \in InFlight : q.pc = "post_commit" /\ q.payload.email = email

\* main.py:235-257: the statement runs inside the transaction; when it raises,
\* the with block rolls back and the finally returns the connection.
post_execute ==
    \E r \in InFlight, fault \in BOOLEAN :
        /\ r.pc = "post_execute"
        /\ IF fault \/ ~tableExists
           THEN /\ used' = Released(used, TRUE)
                /\ Return(r, Failure(r, "StoreError", r.queries + 1))
                /\ UNCHANGED seq
           ELSE /\ ~RowLocked(r.payload.email)
                /\ seq' = seq + 1
                /\ LET res == InsertOnConflict(rows, r.payload, r.correlation_id,
                                               seq + 1, clock)
                   IN IF res.error # ""
                      THEN /\ used' = Released(used, TRUE)
                           /\ Return(r, Failure(r, res.error, r.queries + 1))
                      ELSE /\ Step(r, [r EXCEPT !.pc = "post_commit", !.row = res.row,
                                                !.queries = r.queries + 1])
                           /\ UNCHANGED <<used, last>>
        /\ UNCHANGED <<pool, started, tableExists, rows, clock>>

\* main.py:257-261: leaving the with block commits, the finally returns the
\* connection, the handler answers.
post_commit ==
    \E r \in InFlight :
        /\ r.pc = "post_commit"
        /\ rows' = Commit(rows, r.row)
        /\ used' = Released(used, FALSE)
        /\ Return(r, Ingested(r))
        /\ UNCHANGED <<pool, started, tableExists, seq, clock>>

----------------------------------------------------------------------------
(* list_leads (main.py:130-196) and the counters (main.py:199-224) *)

\* main.py:139-163
list_leads(args, n) ==
    /\ Arrives(n)
    /\ IF ~pool \/ NoMatchingSources(args.source)
       THEN /\ last' = EmptyPage(args)
            /\ UNCHANGED reqs
       ELSE Accept(Request("list_leads", "count_getconn", NoPayload, args))
    /\ UNCHANGED <<pool, started, used, tableExists, rows, seq, clock>>

\* main.py:201-203, 209-211, 218-221
Counter(op, n) ==
    /\ Arrives(n)
    /\ IF ~pool
       THEN /\ last' = Counted(op, 0, 0)
            /\ UNCHANGED reqs
       ELSE Accept(Request(op, "count_getconn", NoPayload, NoArgs))
    /\ UNCHANGED <<pool, started, used, tableExists, rows, seq, clock>>

raw_lead_count(n) == Counter("raw_lead_count", n)

leads_by_source(n) == Counter("leads_by_source", n)

status_funnel(n) == Counter("status_funnel", n)

\* fetch_one, main.py:115
fetch_one_getconn ==
    \E r \in InFlight :
        /\ r.pc = "count_getconn"
        /\ IF Exhausted
           THEN /\ Return(r, Failure(r, "PoolError", r.queries))
                /\ UNCHANGED used
           ELSE /\ used' = used + 1
                /\ Step(r, [r EXCEPT !.pc = "count_execute"])
                /\ UNCHANGED last
        /\ UNCHANGED <<pool, started, tableExists, rows, seq, clock>>

\* Mutant: fetch_one catches the error and returns None; the caller reads a
\* count of 0 (main.py:166, 204, 212, 222).
CountSwallowed(r) ==
    IF r.op = "list_leads"
    THEN /\ Step(r, [r EXCEPT !.pc = "page_getconn", !.total = 0,
                              !.queries = r.queries + 1, !.raised = TRUE])
         /\ UNCHANGED last
    ELSE Return(r, [Counted(r.op, 0, r.queries + 1) EXCEPT !.raised = TRUE])

\* What the caller of fetch_one does when the statement raises: fetch_one has
\* no except clause (main.py:116-122) and neither have its callers.
CountRaises(r) == Return(r, Failure(r, "StoreError", r.queries + 1))

\* fetch_one, main.py:116-122, and the caller's use of the row
\* (main.py:166-168, 204, 212, 222-224)
fetch_one_execute ==
    \E r \in InFlight, fault \in BOOLEAN :
        /\ r.pc = "count_execute"
        /\ used' = Released(used, fault \/ ~tableExists \/ StatementFails(Where(r)))
        /\ IF fault \/ ~tableExists \/ StatementFails(Where(r))
           THEN CountRaises(r)
           ELSE LET total == SelectCount(rows, Where(r))
                IN IF r.op = "list_leads"
                   THEN /\ Step(r, [r EXCEPT !.pc = "page_getconn", !.total = total,
                                             !.queries = r.queries + 1])
                        /\ UNCHANGED last
                   ELSE Return(r, Counted(r.op, total, r.queries + 1))
        /\ UNCHANGED <<pool, started, tableExists, rows, seq, clock>>

\* fetch_all, main.py:102
fetch_all_getconn ==
    \E r \in InFlight :
        /\ r.pc = "page_getconn"
        /\ IF Exhausted
           THEN /\ Return(r, Failure(r, "PoolError", r.queries))
                /\ UNCHANGED used
           ELSE /\ used' = used + 1
                /\ Step(r, [r EXCEPT !.pc = "page_execute"])
                /\ UNCHANGED last
        /\ UNCHANGED <<pool, started, tableExists, rows, seq, clock>>

\* fetch_all, main.py:103-109, and main.py:175-196
fetch_all_execute ==
    \E r \in InFlight, fault \in BOOLEAN :
        /\ r.pc = "page_execute"
        /\ used' = Released(used, fault \/ ~tableExists \/ StatementFails(Where(r)))
        /\ IF fault \/ ~tableExists \/ StatementFails(Where(r))
           THEN Return(r, Failure(r, "StoreError", r.queries + 1))
           ELSE Return(r, Page(r, SelectPage(rows, Where(r), r.args.pageSize,
                                             Offset(r.args.page, r.args.pageSize)),
                               SelectCount(rows, Where(r))))
        /\ UNCHANGED <<pool, started, tableExists, rows, seq, clock>>

\* A step of some handler in flight.
Handler ==
    \/ init_db_getconn
    \/ init_db_execute
    \/ post_getconn
    \/ post_execute
    \/ post_commit
    \/ fetch_one_getconn
    \/ fetch_one_execute
    \/ fetch_all_getconn
    \/ fetch_all_execute

----------------------------------------------------------------------------
(* Inputs *)

a_x == <<"a", "@", "x">>
b_x == <<"b", "@", "x">>
c_x == <<"c", "@", "x">>

Payloads ==
    { LeadIn(a_x, <<"A", "l">>, <<"A", "c">>, <<"w">>, <<"1">>, None),
      LeadIn(a_x, <<"B", "o">>, <<"C", "o">>, <<"v">>, <<"2">>, Some(<<"k">>)),
      LeadIn(a_x, <<"A", "l">>, <<"A", "c">>, <<"w">>, <<"1">>, Some(<<>>)),
      LeadIn(b_x, <<"B", "o">>, <<"a", "c">>, <<"w">>, <<"2">>, None),
      LeadIn(c_x, <<>>, <<>>, <<>>, <<>>, None) }

Searches == {None, Some(<<>>), Some(<<"a", "c">>), Some(<<"_", "o">>)}

Sources ==
    {None, Some(<<"google_maps">>), Some(<<"yelp">>), Some(<<"yelp", "google_maps">>)}

Dates == {None, Some(<<>>), Some(<<-1>>)} \cup {Some(<<t>>) : t \in 0..MaxClock}

\* Parameter combinations of the sequential specification.
SeqArgs ==
    {ListArgs(pg, ps, None, None, None, None) : pg \in 1..MaxPage, ps \in {1, 2}}
    \cup {ListArgs(1, PageSizeMax, None, None, None, None)}
    \cup {ListArgs(1, 2, s, None, None, None) : s \in Searches}
    \cup {ListArgs(1, 1, None, src, None, None) : src \in Sources}
    \cup {ListArgs(2, 1, Some(<<"a", "c">>), Some(<<"yelp", "google_maps">>), None, None)}
    \cup {ListArgs(1, 2, None, None, df, None) : df \in Dates}
    \cup {ListArgs(1, 2, None, None, Some(<<MaxClock>>), Some(<<0>>)),
          ListArgs(1, 2, None, None, None, Some(<<0>>))}

\* Inputs of the concurrent specification.
ConcPayloads ==
    { LeadIn(a_x, <<"A", "l">>, <<"A", "c">>, <<"w">>, <<"1">>, None),
      LeadIn(a_x, <<"B", "o">>, <<"C", "o">>, <<"v">>, <<"2">>, Some(<<"k">>)),
      LeadIn(b_x, <<"B", "o">>, <<"a", "c">>, <<"w">>, <<"2">>, None) }

ConcArgs ==
    { ListArgs(1, 1, None, None, None, None),
      ListArgs(2, 1, None, None, None, None),
      ListArgs(1, 2, Some(<<"a", "c">>), Some(<<"google_maps">>), None, None) }

----------------------------------------------------------------------------
(* Specifications *)

\* Concurrent requests.
Next ==
    \/ on_startup
    \/ \E p \in ConcPayloads : post_lead(p, MaxInflight, MaxInserts)
    \/ \E args \in ConcArgs : list_leads(args, MaxInflight)
    \/ raw_lead_count(MaxInflight)
    \/ Handler

Spec == Init /\ [][Next]_vars

\* One request at a time: the store does not change while a request runs.
NextSeq ==
    \/ on_startup
    \/ Tick
    \/ \E p \in Payloads : post_lead(p, 1, MaxSeq)
    \/ \E args \in SeqArgs : list_leads(args, 1)
    \/ raw_lead_count(1)
    \/ leads_by_source(1)
    \/ status_funnel(1)
    \/ Handler

SpecSeq == Init /\ [][NextSeq]_vars

\* Many requests at once against the pool of maxconn connections.
PoolPayloads == {LeadIn(a_x, <<"A", "l">>, <<"A", "c">>, <<"w">>, <<"1">>, None)}

PoolArgs == {ListArgs(1, 1, None, None, None, None)}

NextPool ==
    \/ on_startup
    \/ \E p \in PoolPayloads : post_lead(p, PoolInflight, MaxSeq)
    \/ \E args \in PoolArgs : list_leads(args, PoolInflight)
    \/ raw_lead_count(PoolInflight)
    \/ Handler

SpecPool == Init /\ [][NextPool]_vars

----------------------------------------------------------------------------
(* Properties *)

PostOk == last.op = "post_lead" /\ last.status = 200

ListOk == last.op = "list_leads" /\ last.status = 200

RowsOf(email) == {r \in rows : r.email = email}

\* The row of the ingestion just answered: one row for its email, with the id
\* and created_at of the answer and the descriptive fields of the request.
C1_Stored ==
    PostOk =>
        /\ Cardinality(RowsOf(last.payload.email)) = 1
        /\ \E r \in RowsOf(last.payload.email) :
              /\ r.id = last.id
              /\ r.created_at = last.createdAt
              /\ r.name = last.payload.name
              /\ r.company = last.payload.company
              /\ r.website = last.payload.website
              /\ r.phone = last.payload.phone
              /\ r.correlation_id = last.correlationId

\* A stored row keeps its email, id and created_at in every step.
C1_Kept ==
    \A r \in rows : \E q \in rows' :
        q.email = r.email /\ q.id = r.id /\ q.created_at = r.created_at

\* The table changes only in the step that answers an ingestion, and only in
\* the row of that ingestion's email.
C1_OnlyIngest ==
    rows' # rows =>
        /\ last'.op = "post_lead" /\ last'.status = 200
        /\ \A r \in rows : r.email # last'.payload.email => r \in rows'
        /\ \A q \in rows' : q.email # last'.payload.email => q \in rows

\* C1: every ingested email has exactly one row; the row keeps the id and
\* created_at of the first ingestion of the email (so every later ingestion
\* answers with them) and carries name, company, website, phone and
\* correlation_id of the most recent ingestion.
C1_Idempotence == [](C1_Stored) /\ [][C1_Kept /\ C1_OnlyIngest]_vars

\* An email is ingested again, after the clock has advanced: the answer
\* carries the older id and the older created_at.
C1_Reingested == PostOk /\ last.id < seq /\ last.createdAt < clock

\* C2: under concurrent ingestion no two stored rows share an email, no
\* ingestion fails with a uniqueness violation, and an ingestion that the
\* store and the pool do not fail answers with the id of the one row of its
\* email.
C2_Unique ==
    /\ \A r, q \in rows : r.email = q.email => r = q
    /\ last.op = "post_lead" /\ pool =>
          /\ last.error # "UniqueViolation"
          /\ last.status = 200 \/ last.error \in {"StoreError", "PoolError"}
    /\ PostOk => \E r \in rows : r.email = last.payload.email /\ r.id = last.id

\* Two ingestions of one email not yet stored are in flight; one has written
\* its row and not committed, the other is about to send its statement.
C2_Racing ==
    \E r, q \in InFlight :
        /\ r.pc = "post_commit" /\ q.pc = "post_execute"
        /\ r.payload.email = q.payload.email
        /\ RowsOf(r.payload.email) = {}

RECURSIVE SumLen(_, _)
SumLen(f, n) == IF n = 0 THEN 0 ELSE Len(f[n]) + SumLen(f, n - 1)

Ids(items) == {items[i].id : i \in 1..Len(items)}

\* What list_leads returns for page pg of args while the table stays as it is.
PageOf(args, pg) ==
    SelectPage(rows, WhereClause(args), args.pageSize, Offset(pg, args.pageSize))

\* The rows the filter of args selects.
Selected(args) ==
    IF NoMatchingSources(args.source) THEN {} ELSE Matching(rows, WhereClause(args))

\* total and totalPages of the answer just given, against the table.
C3_Answer ==
    ListOk /\ pool =>
        /\ last.total = Cardinality(Selected(last.args))
        /\ last.totalPages * last.args.pageSize >= last.total
        /\ last.totalPages = 0 \/ (last.totalPages - 1) * last.args.pageSize < last.total
        /\ last.total = 0 => last.totalPages = 0
        /\ ~NoMatchingSources(last.args.source) =>
              last.items = Leads(PageOf(last.args, last.args.page))
        /\ last.args.page > last.totalPages => last.items = <<>>

\* The pages 1..totalPages of the call just answered, and the page after them.
C3_Pages ==
    ListOk /\ pool /\ ~NoMatchingSources(last.args.source) =>
        LET pages == last.totalPages
            page == [pg \in 1..(pages + 1) |-> PageOf(last.args, pg)]
        IN /\ SumLen(page, pages) = last.total
           /\ \A i, j \in 1..pages : i # j => Ids(page[i]) \cap Ids(page[j]) = {}
           /\ \A i \in 1..pages : Cardinality(Ids(page[i])) = Len(page[i])
           /\ page[pages + 1] = <<>>

\* C3: on an unchanging store, total is the number of rows matching the
\* filter, totalPages is ceil(total / pageSize) (0 for total 0), the pages
\* 1..totalPages hold total items with no id twice, and a page beyond
\* totalPages is empty.
C3_Pagination == C3_Answer /\ C3_Pages

\* The second page of a listing of three rows, one row a page.
C3_SecondPage ==
    ListOk /\ last.args.page = 2 /\ last.total = 3 /\ last.totalPages = 3
           /\ Len(last.items) = 1

Decreasing(items) ==
    \A i, j \in 1..Len(items) : i < j => items[i].id > items[j].id

\* C4: on an unchanging store the items of a page are in strictly decreasing
\* id order, and every id of page p+1 is smaller than every id of page p.
C4_Ordering ==
    /\ ListOk => Decreasing(last.items)
    /\ ListOk /\ pool /\ ~NoMatchingSources(last.args.source) =>
          LET page == [pg \in 1..(last.totalPages + 1) |-> PageOf(last.args, pg)]
          IN /\ last.args.page <= last.totalPages =>
                   last.items = Leads(page[last.args.page])
             /\ \A pg \in 1..last.totalPages :
                   /\ Decreasing(page[pg])
                   /\ \A x \in Ids(page[pg + 1]), y \in Ids(page[pg]) : x < y

\* A page of two rows out of three, and a second page after a first.
C4_TwoOnPage == ListOk /\ Len(last.items) = 2 /\ last.total = 3

\* C5: a source filter without "google_maps" gives the empty page, total 0
\* and totalPages 0 with no statement sent to the store; a source filter with
\* "google_maps" gives what the same call without source gives.
C5_Source ==
    /\ last.op = "list_leads" /\ last.args.source # None
          /\ "google_maps" \notin Range(last.args.source[1]) =>
          /\ last.status = 200
          /\ last.items = <<>> /\ last.total = 0 /\ last.totalPages = 0
          /\ last.queries = 0
    /\ ListOk /\ pool /\ last.args.source # None
          /\ "google_maps" \in Range(last.args.source[1]) =>
          LET same == [last.args EXCEPT !.source = None]
          IN /\ last.items = Leads(PageOf(same, same.page))
             /\ last.total = SelectCount(rows, WhereClause(same))
             /\ last.totalPages = TotalPages(last.total, same.pageSize)

\* A listing for another source while rows are stored.
C5_OtherSource ==
    /\ last.op = "list_leads" /\ last.args.source = Some(<<"yelp">>)
    /\ rows # {}

Reads == {"list_leads", "raw_lead_count", "leads_by_source", "status_funnel"}

\* C6: without a store every read answers an empty or zero result and never
\* an error; every ingestion is answered 503, never success, and stores
\* nothing.
C6_NoStore ==
    ~pool =>
        /\ rows = {} /\ reqs = EmptyBag /\ used = 0 /\ seq = 0
        /\ last.op = "post_lead" => last.status = ServiceUnavailable
        /\ last.op \in Reads =>
              /\ last.status = 200 /\ last.error = ""
              /\ last.items = <<>> /\ last.total = 0 /\ last.totalPages = 0
              /\ last.count = 0

\* An ingestion has been rejected for want of a store.
C6_Rejected == ~pool /\ last.op = "post_lead" /\ last.status = ServiceUnavailable

\* C7: a correlationId carried by the request, whatever string it is, is the
\* one answered and the one stored; only a request without correlationId
\* gets the generated "manual-<epoch-seconds>-<email>"; the answered and the
\* stored correlation id are equal.
C7_Verbatim ==
    PostOk =>
        /\ last.payload.correlationId # None =>
              last.correlationId = last.payload.correlationId[1]
        /\ last.payload.correlationId = None =>
              \E t \in 0..clock :
                  last.correlationId = <<"manual-">> \o Digits(t) \o <<"-">> \o last.payload.email
        /\ \A r \in RowsOf(last.payload.email) : r.correlation_id = last.correlationId

\* C8: a connection taken from the pool is given back on every exit path, so
\* the connections checked out are exactly those of the requests standing
\* between getconn and putconn, one each; never more than maxconn; none once
\* no request is in flight; and while requests are in flight some handler
\* can take a step.
C8_Pool ==
    /\ used = CountAt(Holding)
    /\ used <= maxconn
    /\ reqs = EmptyBag => used = 0
    /\ reqs # EmptyBag => ENABLED Handler

\* All connections are checked out and a further request has been refused one.
C8_Exhausted == used = maxconn /\ last.error = "PoolError"

\* An error raised by a statement is answered as a failure, and no handler
\* runs on after one.
C9_NoSwallow ==
    /\ last.raised => last.status = 500
    /\ \A r \in InFlight : ~r.raised

\* C9: with a store, an error raised by a read statement or by a statement
\* of an ingestion reaches the caller as a failure, never as an empty, zero
\* or success result, and the step that answers a failure leaves the stored
\* rows as they were.
C9_Propagates == [](C9_NoSwallow) /\ [][last'.status = 500 => rows' = rows]_vars

\* The INSERT of an ingestion raised while rows were stored.
C9_IngestFailed ==
    last.op = "post_lead" /\ last.raised /\ last.queries = 2 /\ rows # {}

\* The items a page holds when n rows match.
Expected(args, n) ==
    Min(args.pageSize, Max(0, n - (args.page - 1) * args.pageSize))

\* C10, as claimed: every answer of list_leads is consistent with one
\* snapshot: the items number min(pageSize, max(0, total - (page-1)*pageSize))
\* for the total answered, and total is the number of rows that matched when
\* the items were read.
C10_Snapshot ==
    ListOk /\ last.queries = 2 =>
        /\ Len(last.items) = Expected(last.args, last.total)
        /\ last.total = last.visible

\* C10, amended: the items number min(pageSize, max(0, M - (page-1)*pageSize))
\* for the number M of rows that matched when the items were read; total was
\* counted earlier and may differ from M; without a search term it is at most
\* M, so the page holds at least the items the answered total calls for.
C10_TwoReads ==
    ListOk /\ last.queries = 2 =>
        /\ Len(last.items) = Expected(last.args, last.visible)
        /\ Len(last.items) <= last.args.pageSize
        /\ ~Truthy(last.args.search) =>
              /\ last.total <= last.visible
              /\ Len(last.items) >= Expected(last.args, last.total)

\* An ingestion committed between the count and the page statement.
C10_Raced == ListOk /\ last.queries = 2 /\ last.total # last.visible

====
